---- MODULE Spec2Model ----
(***************************************************************************)
(* Model of app.py, the Bio Room Use Chart Generator: parse_time,          *)
(* get_day_of_week, process_schedule_data and the Streamlit script that    *)
(* holds the session state (df_loaded, file_valid, chart_data,             *)
(* last_uploaded_filename).                                                *)
(*                                                                         *)
(* Python strings are sequences of one-character strings, so that strip,   *)
(* zfill, slicing, replace and int() are computed character by character.  *)
(* A dataframe cell is a record [isna, str]: isna is pandas' missing value *)
(* (NaN), str is the text str() gives for the cell.                        *)
(***************************************************************************)
EXTENDS Integers, Sequences, FiniteSets, TLC

VARIABLES
    time_str,                \* parse_time: the argument
    begin_time,              \* parse_time: the call's outcome
    row,                     \* get_day_of_week: the argument
    days,                    \* get_day_of_week: the call's outcome
    df,                      \* process_schedule_data: the argument (its rows)
    ret,                     \* process_schedule_data: the call's outcome
    uploaded_file,           \* the file held by st.file_uploader, or NoFile
    df_loaded,               \* st.session_state.df_loaded
    file_valid,              \* st.session_state.file_valid
    chart_data,              \* st.session_state.chart_data
    last_uploaded_filename,  \* st.session_state.last_uploaded_filename
    pc,                      \* position of the script run
    clicked,                 \* this run was triggered by a click on Generate
    button_shown,            \* the Generate button was rendered by the last run
    room_schedule,           \* the run's local room_schedule (line 320)
    message,                 \* the last st.error / st.success / st.warning / exception
    download_offered         \* the Download Word Document button was rendered

parseVars == <<time_str, begin_time>>
dayVars   == <<row, days>>
procVars  == <<df, ret>>
uiVars    == <<uploaded_file, df_loaded, file_valid, chart_data,
               last_uploaded_filename, pc, clicked, button_shown,
               room_schedule, message, download_offered>>
vars      == <<parseVars, dayVars, procVars, uiVars>>

(***************************************************************************)
(* Bounds of the model.                                                    *)
(***************************************************************************)
MaxHour   == 25    \* hour parts of the generated time tokens: 0..MaxHour
MaxMinute == 61    \* minute parts of the generated time tokens: 0..MaxMinute
MaxRows   == 3     \* rows of a dataframe given to process_schedule_data

(***************************************************************************)
(* Python values.                                                          *)
(***************************************************************************)
None    == [ok |-> FALSE, val |-> 0]
Some(n) == [ok |-> TRUE, val |-> n]

NaN     == [isna |-> TRUE, str |-> <<>>]
Text(s) == [isna |-> FALSE, str |-> s]

\* str(cell): str(float('nan')) is 'nan'
Str(cell) == IF cell.isna THEN <<"n", "a", "n">> ELSE cell.str

Digits     == {"0", "1", "2", "3", "4", "5", "6", "7", "8", "9"}
Whitespace == {" ", "\t"}

DigitVal(c) ==
    CASE c = "0" -> 0 [] c = "1" -> 1 [] c = "2" -> 2 [] c = "3" -> 3
      [] c = "4" -> 4 [] c = "5" -> 5 [] c = "6" -> 6 [] c = "7" -> 7
      [] c = "8" -> 8 [] c = "9" -> 9

DigitChar(n) ==
    CASE n = 0 -> "0" [] n = 1 -> "1" [] n = 2 -> "2" [] n = 3 -> "3"
      [] n = 4 -> "4" [] n = 5 -> "5" [] n = 6 -> "6" [] n = 7 -> "7"
      [] n = 8 -> "8" [] n = 9 -> "9"

\* str(n) for an int n
RECURSIVE NatToStr(_)
NatToStr(n) ==
    IF n < 10 THEN <<DigitChar(n)>>
    ELSE NatToStr(n \div 10) \o <<DigitChar(n % 10)>>

IntToStr(n) == IF n < 0 THEN <<"-">> \o NatToStr(0 - n) ELSE NatToStr(n)

\* str.strip(): leading and trailing whitespace removed
RECURSIVE lstrip(_)
lstrip(s) ==
    IF s # <<>> /\ Head(s) \in Whitespace THEN lstrip(Tail(s)) ELSE s

RECURSIVE rstrip(_)
rstrip(s) ==
    IF s # <<>> /\ s[Len(s)] \in Whitespace
    THEN rstrip(SubSeq(s, 1, Len(s) - 1)) ELSE s

strip(s) == rstrip(lstrip(s))

Zeros(n) == [i \in 1..n |-> "0"]

\* str.zfill(width): zeros go after a leading sign
zfill(s, width) ==
    IF Len(s) >= width THEN s
    ELSE IF s # <<>> /\ Head(s) \in {"+", "-"}
         THEN <<Head(s)>> \o Zeros(width - Len(s)) \o Tail(s)
         ELSE Zeros(width - Len(s)) \o s

\* the digits of an int() literal: digit groups joined by single underscores
RECURSIVE DigitsValue(_, _, _)
DigitsValue(s, acc, afterDigit) ==
    IF s = <<>> THEN (IF afterDigit THEN Some(acc) ELSE None)
    ELSE IF Head(s) \in Digits
         THEN DigitsValue(Tail(s), acc * 10 + DigitVal(Head(s)), TRUE)
         ELSE IF Head(s) = "_" /\ afterDigit
              THEN DigitsValue(Tail(s), acc, FALSE)
              ELSE None

\* int(s) for a str s: surrounding whitespace, an optional sign, then digits;
\* None stands for ValueError
PyInt(s) ==
    LET t == strip(s) IN
    IF t = <<>> THEN None
    ELSE IF Head(t) \in {"+", "-"}
         THEN LET d == DigitsValue(Tail(t), 0, FALSE) IN
              IF d.ok /\ Head(t) = "-" THEN Some(0 - d.val) ELSE d
         ELSE DigitsValue(t, 0, FALSE)

(***************************************************************************)
(* parse_time (lines 99-107).                                              *)
(***************************************************************************)
ZFILL_WIDTH == 4

parse_time(cell) ==
    IF cell.isna \/ cell.str = <<>> THEN None
    ELSE LET t == zfill(strip(Str(cell)), ZFILL_WIDTH)
             hours == PyInt(SubSeq(t, 1, Len(t) - 2))
             minutes == PyInt(SubSeq(t, Len(t) - 1, Len(t)))
         IN  IF hours.ok /\ minutes.ok
             THEN Some(hours.val * 60 + minutes.val)
             ELSE None

\* the tokens of a time h:m
Pad2(n) == IF n < 10 THEN <<"0">> \o NatToStr(n) ELSE NatToStr(n)
HHMM(h, m)    == Pad2(h) \o Pad2(m)             \* "1430", "0905"
HColonM(h, m) == Pad2(h) \o <<":">> \o Pad2(m)  \* "14:30", "09:05"
Numeric(h, m) == NatToStr(h * 100 + m)          \* str(int): "1430", "905"

OddTokens ==
    { <<>>, <<" ">>, <<"a", "b", "c">>, <<"-", "1", "0", "0">>, <<"-", "5">>,
      <<"1", "4", "3", "0", ".", "0">>, <<" ", "9", "3", "0", " ">>,
      <<"1", "2", "3", "4", "5">>, <<"1", "_", "0", "3", "0">>,
      <<"+", "9", "3", "0">>, <<"1", "2", "-", "5">>, <<"9">> }

TimeCells ==
    {NaN}
    \cup {Text(s) : s \in OddTokens}
    \cup {Text(HHMM(h, m)) : h \in 0..MaxHour, m \in 0..MaxMinute}
    \cup {Text(HColonM(h, m)) : h \in 0..MaxHour, m \in 0..MaxMinute}
    \cup {Text(Numeric(h, m)) : h \in 0..MaxHour, m \in 0..MaxMinute}

(***************************************************************************)
(* get_day_of_week (lines 110-117). A row is a function from column names  *)
(* to cells; "day_char in row" is membership in the row's index.           *)
(***************************************************************************)
DAY_COLUMNS ==
    << <<"M", "Monday">>, <<"T", "Tuesday">>, <<"W", "Wednesday">>,
       <<"R", "Thursday">>, <<"F", "Friday">> >>

DayFull(p) == p[2]

LowerCase(c) ==
    CASE c = "M" -> "m" [] c = "T" -> "t" [] c = "W" -> "w"
      [] c = "R" -> "r" [] c = "F" -> "f"

\* variant: the letter is matched in either case
FlagSet_any_case(r, day_char) ==
    /\ day_char \in DOMAIN r
    /\ strip(Str(r[day_char])) \in {<<day_char>>, <<LowerCase(day_char)>>}

FlagSet(r, day_char) ==
    day_char \in DOMAIN r /\ strip(Str(r[day_char])) = <<day_char>>

RECURSIVE MapDayFull(_)
MapDayFull(ps) ==
    IF ps = <<>> THEN <<>> ELSE <<DayFull(Head(ps))>> \o MapDayFull(Tail(ps))

\* variant: a day is taken when its cell is truthy
get_day_of_week_truthy(r) ==
    MapDayFull(SelectSeq(DAY_COLUMNS,
                         LAMBDA p : p[1] \in DOMAIN r /\ strip(Str(r[p[1]])) # <<>>))

get_day_of_week(r) ==
    MapDayFull(SelectSeq(DAY_COLUMNS, LAMBDA p : FlagSet(r, p[1])))

DayChars == {DAY_COLUMNS[i][1] : i \in DOMAIN DAY_COLUMNS}
Weekdays == {DAY_COLUMNS[i][2] : i \in DOMAIN DAY_COLUMNS}

OtherLetter(c) == IF c = "M" THEN "T" ELSE "M"

\* the values tried in the flag column c; Absent means the row has no column c
Absent == [isna |-> TRUE, str |-> <<"absent">>]

FlagCells(c) ==
    { Absent, NaN, Text(<<>>), Text(<<c>>), Text(<<" ", c, "\t">>),
      Text(<<LowerCase(c)>>), Text(<<"X">>), Text(<<"1">>),
      Text(<<OtherLetter(c)>>) }

FlagRow(m, t, w, r, f) ==
    LET choice == ("M" :> m) @@ ("T" :> t) @@ ("W" :> w) @@ ("R" :> r) @@ ("F" :> f)
    IN  [c \in {d \in DayChars : choice[d] # Absent} |-> choice[c]]

FlagRows ==
    { FlagRow(m, t, w, r, f) :
        m \in FlagCells("M"), t \in FlagCells("T"), w \in FlagCells("W"),
        r \in FlagCells("R"), f \in FlagCells("F") }

(***************************************************************************)
(* process_schedule_data (lines 120-170).                                  *)
(***************************************************************************)
DROPNA_SUBSET == {"BLDG", "ROOM", "BEGIN", "END"}
STRIP_COLS    == {"BLDG", "ROOM", "SUBJ", "CRSE #", "LAST NAME",
                  "M", "T", "W", "R", "F"}

\* float(s) then int(): [kind, val], kind one of "int", "ValueError" (not a
\* number, or nan) and "OverflowError" (an infinity). The literals covered are
\* [sign] digits [. digits], inf, infinity and nan.
RECURSIVE SplitAtDot(_, _)
SplitAtDot(s, before) ==
    IF s = <<>> THEN <<before, <<>>, FALSE>>
    ELSE IF Head(s) = "." THEN <<before, Tail(s), TRUE>>
         ELSE SplitAtDot(Tail(s), Append(before, Head(s)))

IntOfFloat(s) ==
    LET t == strip(s)
        signed == t # <<>> /\ Head(t) \in {"+", "-"}
        neg == t # <<>> /\ Head(t) = "-"
        body == IF signed THEN Tail(t) ELSE t
        parts == SplitAtDot(body, <<>>)
        whole == DigitsValue(parts[1], 0, FALSE)
        frac == DigitsValue(parts[2], 0, FALSE)
        wholeOk == parts[1] = <<>> \/ whole.ok
        fracOk == parts[2] = <<>> \/ frac.ok
        magnitude == IF parts[1] = <<>> THEN 0 ELSE whole.val
    IN  IF body \in {<<"i", "n", "f">>, <<"i", "n", "f", "i", "n", "i", "t", "y">>}
        THEN [kind |-> "OverflowError", val |-> 0]
        ELSE IF body = <<"n", "a", "n">>
        THEN [kind |-> "ValueError", val |-> 0]
        ELSE IF wholeOk /\ fracOk /\ (parts[1] # <<>> \/ parts[2] # <<>>)
        THEN [kind |-> "int", val |-> IF neg THEN 0 - magnitude ELSE magnitude]
        ELSE [kind |-> "ValueError", val |-> 0]

\* str.replace('SCST', 'ST'): every occurrence, left to right
RECURSIVE ReplaceSCST(_)
ReplaceSCST(s) ==
    IF s = <<>> THEN <<>>
    ELSE IF Len(s) >= 4 /\ SubSeq(s, 1, 4) = <<"S", "C", "S", "T">>
         THEN <<"S", "T">> \o ReplaceSCST(SubSeq(s, 5, Len(s)))
         ELSE <<Head(s)>> \o ReplaceSCST(Tail(s))

\* lines 134-138: the key columns as stripped strings
StripRow(r) ==
    [c \in DOMAIN r |-> IF c \in STRIP_COLS THEN Text(strip(Str(r[c]))) ELSE r[c]]

\* line 128: a row survives dropna when none of the four cells is missing
Survives(r) == \A c \in DROPNA_SUBSET : ~r[c].isna

MORNING_END == 720

\* lines 157-165; "row" is the index of the dataframe row the entry comes from
\* (kept for the claims, the program's dict holds no such key)
Entry(r, i, minutes) ==
    [Begin |-> r["BEGIN"], End |-> r["END"], BeginMinutes |-> minutes,
     IsMorning |-> minutes < MORNING_END, row |-> i]

EmptyDict == [k \in {} |-> <<>>]

\* lines 154-157: room_schedule[day][room_name].append(entry)
AppendEntry(rs, day, room_name, e) ==
    LET byRoom == IF day \in DOMAIN rs THEN rs[day] ELSE EmptyDict
        bucket == IF room_name \in DOMAIN byRoom THEN byRoom[room_name] ELSE <<>>
    IN  (day :> ((room_name :> Append(bucket, e)) @@ byRoom)) @@ rs

RECURSIVE AppendDays(_, _, _, _)
AppendDays(rs, ds, room_name, e) ==
    IF ds = <<>> THEN rs
    ELSE AppendDays(AppendEntry(rs, Head(ds), room_name, e), Tail(ds), room_name, e)

\* variant: an entry goes before the entries of equal key
RECURSIVE InsertByKey_before_equal(_, _)
InsertByKey_before_equal(sorted, e) ==
    IF sorted = <<>> THEN <<e>>
    ELSE IF sorted[Len(sorted)].BeginMinutes < e.BeginMinutes
         THEN Append(sorted, e)
         ELSE Append(InsertByKey_before_equal(SubSeq(sorted, 1, Len(sorted) - 1), e),
                     sorted[Len(sorted)])

\* list.sort(key=BeginMinutes): stable, ascending
RECURSIVE InsertByKey(_, _)
InsertByKey(sorted, e) ==
    IF sorted = <<>> THEN <<e>>
    ELSE IF sorted[Len(sorted)].BeginMinutes <= e.BeginMinutes
         THEN Append(sorted, e)
         ELSE Append(InsertByKey(SubSeq(sorted, 1, Len(sorted) - 1), e),
                     sorted[Len(sorted)])

RECURSIVE SortRec(_, _)
SortRec(done, todo) ==
    IF todo = <<>> THEN done
    ELSE SortRec(InsertByKey(done, Head(todo)), Tail(todo))

\* variant: the bucket is left in insertion order
SortBucket_skipped(bucket) == bucket

SortBucket(bucket) == SortRec(<<>>, bucket)

\* lines 167-169
SortAll(rs) ==
    [day \in DOMAIN rs |-> [room \in DOMAIN rs[day] |-> SortBucket(rs[day][room])]]

\* lines 145-148: the room name of a stripped row
RoomNumber(r) == IntOfFloat(r["ROOM"].str)
RoomName(r)   == ReplaceSCST(r["BLDG"].str) \o IntToStr(RoomNumber(r).val)

\* lines 144-165, from row i on: [raised, at, room_schedule]
RECURSIVE Ingest(_, _, _)
Ingest(rows, i, rs) ==
    IF i > Len(rows) THEN [raised |-> FALSE, at |-> 0, room_schedule |-> rs]
    ELSE IF ~Survives(rows[i]) THEN Ingest(rows, i + 1, rs)
    ELSE LET r == StripRow(rows[i])
             num == RoomNumber(r)
             minutes == parse_time(r["BEGIN"])
         IN  IF num.kind = "OverflowError"
             THEN [raised |-> TRUE, at |-> i, room_schedule |-> rs]
             ELSE IF num.kind = "ValueError" THEN Ingest(rows, i + 1, rs)
             ELSE IF ~minutes.ok THEN Ingest(rows, i + 1, rs)
             ELSE Ingest(rows, i + 1,
                         AppendDays(rs, get_day_of_week(r), RoomName(r),
                                    Entry(r, i, minutes.val)))

process_schedule_data(rows) ==
    LET ingested == Ingest(rows, 1, EmptyDict) IN
    IF ingested.raised THEN ingested
    ELSE [ingested EXCEPT !.room_schedule = SortAll(@)]

(***************************************************************************)
(* The rows given to process_schedule_data. Only the columns the function  *)
(* reads for bucketing are kept (BLDG, ROOM, BEGIN, END and the five day   *)
(* flags); SUBJ, CRSE #, TITLE and LAST NAME only fill display fields.     *)
(***************************************************************************)
ST225  == <<"2", "2", "5">>
T900   == <<"9", "0", "0">>
T0900  == <<"0", "9", "0", "0">>
T1430  == <<"1", "4", "3", "0">>
T14c30 == <<"1", "4", ":", "3", "0">>
T2500  == <<"2", "5", "0", "0">>
Tm100  == <<"-", "1", "0", "0">>
T1000  == <<"1", "0", "0", "0">>

\* Monday and Wednesday
FlagsMW ==
    [c \in DayChars |-> IF c \in {"M", "W"} THEN Text(<<c>>) ELSE NaN]
\* Monday and Thursday, the other columns hold values that are not the letter
FlagsOdd ==
    [c \in DayChars |->
        CASE c = "M" -> Text(<<" ", "M", "\t">>)
          [] c = "T" -> Text(<<"t">>)
          [] c = "W" -> Text(<<"X">>)
          [] c = "R" -> Text(<<"R">>)
          [] c = "F" -> Text(<<"1">>)]

MkRow(bldg, room, begin, end, flags) ==
    [c \in DROPNA_SUBSET \cup DayChars |->
        CASE c = "BLDG" -> bldg [] c = "ROOM" -> room
          [] c = "BEGIN" -> begin [] c = "END" -> end
          [] OTHER -> flags[c]]

BaseRow(begin, flags) ==
    MkRow(Text(<<"S", "T">>), Text(ST225), begin, Text(T1000), flags)

ProcRows ==
    { BaseRow(Text(b), f) : b \in {T900, T0900, T1430}, f \in {FlagsMW, FlagsOdd} }
    \cup
    { BaseRow(Text(T14c30), FlagsMW), BaseRow(Text(T2500), FlagsMW) }
    \cup
    { MkRow(Text(<<"S", "C", "S", "T">>), Text(ST225 \o <<".", "0">>),
            Text(T900), Text(T1000), FlagsMW),
      MkRow(Text(<<"S", "T">>), Text(<<"i", "n", "f">>), Text(T14c30), Text(T1000), FlagsMW),
      MkRow(Text(<<"S", "T">>), Text(<<"2", "x">>), Text(T900), Text(T1000), FlagsMW),
      MkRow(Text(<<"S", "T">>), NaN, Text(T900), Text(T1000), FlagsMW),
      MkRow(Text(<<"S", "T">>), Text(<<"2", "2", "7">>), Text(T1430), Text(T1000), FlagsMW),
      BaseRow(NaN, FlagsMW),
      BaseRow(Text(<<>>), FlagsMW),
      BaseRow(Text(Tm100), FlagsMW),
      MkRow(Text(<<"S", "T">>), Text(ST225), Text(T900), NaN, FlagsMW) }

RECURSIVE SeqsUpTo(_, _)
SeqsUpTo(S, n) ==
    IF n = 0 THEN {<<>>}
    ELSE LET shorter == SeqsUpTo(S, n - 1) IN
         shorter \cup {Append(q, x) : q \in {t \in shorter : Len(t) = n - 1}, x \in S}

(***************************************************************************)
(* The three functions, each applied to an input drawn by Init.            *)
(***************************************************************************)
NotCalled(result) == [called |-> FALSE, result |-> result]
Called(result)    == [called |-> TRUE, result |-> result]

NoReturn ==
    [called |-> FALSE, raised |-> FALSE, at |-> 0, room_schedule |-> EmptyDict]
Returned(r) ==
    [called |-> TRUE, raised |-> r.raised, at |-> r.at,
     room_schedule |-> r.room_schedule]

ParseRest == time_str = NaN /\ begin_time = NotCalled(None)
DayRest   == row = EmptyDict /\ days = NotCalled(<<>>)
ProcRest  == df = <<>> /\ ret = NoReturn

ParseInit == time_str \in TimeCells /\ begin_time = NotCalled(None)
DayInit   == row \in FlagRows /\ days = NotCalled(<<>>)
ProcInit  == df \in SeqsUpTo(ProcRows, MaxRows) /\ ret = NoReturn

ParseTime ==
    /\ ~begin_time.called
    /\ begin_time' = Called(parse_time(time_str))
    /\ UNCHANGED <<time_str, dayVars, procVars, uiVars>>

GetDayOfWeek ==
    /\ ~days.called
    /\ days' = Called(get_day_of_week(row))
    /\ UNCHANGED <<row, parseVars, procVars, uiVars>>

ProcessScheduleData ==
    /\ ~ret.called
    /\ ret' = Returned(process_schedule_data(df))
    /\ UNCHANGED <<df, parseVars, dayVars, uiVars>>

(***************************************************************************)
(* The Streamlit script (lines 275-339). Every widget interaction reruns   *)
(* the script from the top; st.session_state survives the reruns.          *)
(***************************************************************************)
REQUIRED_COLUMNS ==
    <<"SUBJ", "CRSE #", "SEC #", "TITLE", "ATTRIBUTE", "UNITS",
      "M", "T", "W", "R", "F", "BEGIN", "END", "BLDG", "ROOM",
      "ENROLLMENT", "LAST NAME", "FIRST NAME">>

AllColumns == {REQUIRED_COLUMNS[i] : i \in DOMAIN REQUIRED_COLUMNS}

NoFile == [present |-> FALSE, name |-> "", ext |-> "", readable |-> FALSE,
           columns |-> {}, rows |-> <<>>]
MkFile(name, ext, content) ==
    [present |-> TRUE, name |-> name, ext |-> ext, readable |-> content.readable,
     columns |-> content.columns, rows |-> content.rows]

\* what a file can hold
Contents ==
    { [readable |-> FALSE, columns |-> {}, rows |-> <<>>],
      [readable |-> TRUE, columns |-> AllColumns \ {"BEGIN"}, rows |-> <<>>],
      [readable |-> TRUE, columns |-> AllColumns, rows |-> <<>>],
      [readable |-> TRUE, columns |-> AllColumns,
       rows |-> <<BaseRow(Text(T1430), FlagsMW), BaseRow(Text(T900), FlagsMW)>>],
      [readable |-> TRUE, columns |-> AllColumns,
       rows |-> <<MkRow(Text(<<"S", "T">>), Text(<<"i", "n", "f">>), Text(T900),
                        Text(T1000), FlagsMW)>>] }

\* the uploader takes csv, xlsx and xls in any case of the extension
FileNames ==
    { <<"schedule.csv", ".csv">>, <<"fall.xlsx", ".xlsx">>, <<"OLD.CSV", ".CSV">> }

Files == {MkFile(n[1], n[2], c) : n \in FileNames, c \in Contents}

NoName      == [ok |-> FALSE, val |-> ""]
SomeName(n) == [ok |-> TRUE, val |-> n]

NoDf  == [ok |-> FALSE, columns |-> {}, rows |-> <<>>]
NoChart == [ok |-> FALSE, doc |-> EmptyDict]

\* lines 83-96: None for an unsupported extension or a read that raises
load_schedule_data(f) ==
    IF f.ext \in {".csv", ".xlsx", ".xls"} /\ f.readable
    THEN [ok |-> TRUE, columns |-> f.columns, rows |-> f.rows]
    ELSE NoDf

\* line 308
missing_cols(columns) == SelectSeq(REQUIRED_COLUMNS, LAMBDA col : col \notin columns)

\* variant: every run with a file reloads it
IsNewFile_always(f, last) == TRUE

\* line 300: a new file has been uploaded
IsNewFile(f, last) == SomeName(f.name) # last

\* lines 288-296, and the first run about to start
UIInit ==
    /\ uploaded_file = NoFile
    /\ df_loaded = NoDf
    /\ file_valid = FALSE
    /\ chart_data = NoChart
    /\ last_uploaded_filename = NoName
    /\ pc = "upload"
    /\ clicked = FALSE
    /\ button_shown = FALSE
    /\ room_schedule = NoReturn
    /\ message = ""
    /\ download_offered = FALSE

session == <<df_loaded, file_valid, chart_data, last_uploaded_filename>>

\* a rerun starts: the page is drawn anew
StartRun(file, click) ==
    /\ pc = "idle"
    /\ uploaded_file' = file
    /\ clicked' = click
    /\ pc' = "upload"
    /\ button_shown' = FALSE
    /\ download_offered' = FALSE
    /\ room_schedule' = NoReturn
    /\ message' = ""
    /\ UNCHANGED <<session, parseVars, dayVars, procVars>>

\* the user puts a file into the uploader
Upload == \E f \in Files : f # uploaded_file /\ StartRun(f, FALSE)

\* the user removes the file from the uploader
RemoveFile == uploaded_file.present /\ StartRun(NoFile, FALSE)

\* the user clicks Generate Room Chart, which the last run rendered
ClickGenerate == button_shown /\ StartRun(uploaded_file, TRUE)

\* the user clicks Download Template CSV (line 348): a rerun without a click
\* on Generate
ClickTemplate == StartRun(uploaded_file, FALSE)

\* lines 298-304
UploadStep ==
    /\ pc = "upload"
    /\ IF uploaded_file.present /\ IsNewFile(uploaded_file, last_uploaded_filename)
       THEN /\ last_uploaded_filename' = SomeName(uploaded_file.name)
            /\ df_loaded' = load_schedule_data(uploaded_file)
            /\ file_valid' = FALSE
            /\ chart_data' = NoChart
            /\ message' = IF load_schedule_data(uploaded_file).ok THEN message
                          ELSE "error: file not read"
            /\ pc' = "validate"
       ELSE /\ pc' = "generate"
            /\ UNCHANGED <<session, message>>
    /\ UNCHANGED <<uploaded_file, clicked, button_shown, room_schedule,
                   download_offered, parseVars, dayVars, procVars>>

\* lines 306-314
ValidateStep ==
    /\ pc = "validate"
    /\ IF df_loaded.ok
       THEN IF missing_cols(df_loaded.columns) # <<>>
            THEN file_valid' = FALSE /\ message' = "error: missing columns"
            ELSE file_valid' = TRUE /\ message' = "success: file processed"
       ELSE UNCHANGED <<file_valid, message>>
    /\ pc' = "generate"
    /\ UNCHANGED <<uploaded_file, df_loaded, chart_data, last_uploaded_filename,
                   clicked, button_shown, room_schedule, download_offered,
                   parseVars, dayVars, procVars>>

\* lines 317-330. An exception ends the run: OverflowError out of
\* process_schedule_data (line 146), AttributeError at io.BytesO() (line 323),
\* which the io module does not have, so that line 325 is never reached.
GenerateStep ==
    /\ pc = "generate"
    /\ IF file_valid /\ ~chart_data.ok
       THEN /\ button_shown' = TRUE
            /\ IF clicked
               THEN LET r == process_schedule_data(df_loaded.rows) IN
                    /\ room_schedule' = Returned(r)
                    /\ IF r.raised
                       THEN message' = "OverflowError" /\ pc' = "idle"
                       ELSE IF DOMAIN r.room_schedule # {}
                            THEN message' = "AttributeError" /\ pc' = "idle"
                            ELSE message' = "warning: no chart" /\ pc' = "download"
                    /\ chart_data' = IF ~r.raised /\ DOMAIN r.room_schedule = {}
                                     THEN NoChart ELSE chart_data
               ELSE /\ pc' = "download"
                    /\ UNCHANGED <<room_schedule, message, chart_data>>
       ELSE /\ pc' = "download"
            /\ UNCHANGED <<button_shown, room_schedule, message, chart_data>>
    /\ UNCHANGED <<uploaded_file, df_loaded, file_valid, last_uploaded_filename,
                   clicked, download_offered, parseVars, dayVars, procVars>>

\* lines 333-339
DownloadStep ==
    /\ pc = "download"
    /\ download_offered' = chart_data.ok
    /\ pc' = "idle"
    /\ UNCHANGED <<uploaded_file, session, clicked, button_shown, room_schedule,
                   message, parseVars, dayVars, procVars>>

(***************************************************************************)
(* Specifications.                                                         *)
(***************************************************************************)
Init == ParseRest /\ DayRest /\ ProcInit /\ UIInit
Next == ProcessScheduleData
Spec == Init /\ [][Next]_vars

InitParse == ParseInit /\ DayRest /\ ProcRest /\ UIInit
NextParse == ParseTime
SpecParse == InitParse /\ [][NextParse]_vars

InitDays == ParseRest /\ DayInit /\ ProcRest /\ UIInit
NextDays == GetDayOfWeek
SpecDays == InitDays /\ [][NextDays]_vars

InitUI == ParseRest /\ DayRest /\ ProcRest /\ UIInit
NextUI ==
    \/ Upload
    \/ RemoveFile
    \/ ClickGenerate
    \/ ClickTemplate
    \/ UploadStep
    \/ ValidateStep
    \/ GenerateStep
    \/ DownloadStep
SpecUI == InitUI /\ [][NextUI]_vars

(***************************************************************************)
(* Properties of process_schedule_data, under Spec.                        *)
(***************************************************************************)
HasReturned == ret.called /\ ~ret.raised

Bucket(rs, day, room) ==
    IF day \in DOMAIN rs /\ room \in DOMAIN rs[day] THEN rs[day][room] ELSE <<>>

Buckets(rs) == UNION {{rs[day][room] : room \in DOMAIN rs[day]} : day \in DOMAIN rs}

CountFrom(bucket, i) == Cardinality({k \in DOMAIN bucket : bucket[k].row = i})

\* the row has its four key cells, a numeric ROOM and a BEGIN that parses
ValidRow(i) ==
    /\ \A c \in DROPNA_SUBSET : ~df[i][c].isna
    /\ IntOfFloat(df[i]["ROOM"].str).kind = "int"
    /\ parse_time(df[i]["BEGIN"]).ok

RoomOfRow(i) == RoomName(StripRow(df[i]))

FlagIsSet(i, c) == strip(Str(df[i][c])) = <<c>>

\* C1: once process_schedule_data has returned, every valid row has exactly
\* one entry, carrying its BEGIN and the minutes parsed from it, in the bucket
\* (X, its room) of every weekday X whose flag it sets, and no entry in any
\* bucket of a weekday X whose flag it does not set.
C1_OneEntryPerActiveDay ==
    HasReturned =>
        \A i \in DOMAIN df : ValidRow(i) =>
            \A d \in DOMAIN DAY_COLUMNS :
                LET c == DAY_COLUMNS[d][1]
                    day == DAY_COLUMNS[d][2]
                    own == Bucket(ret.room_schedule, day, RoomOfRow(i))
                IN  IF FlagIsSet(i, c)
                    THEN /\ CountFrom(own, i) = 1
                         /\ \A k \in DOMAIN own : own[k].row = i =>
                                /\ own[k].Begin = df[i]["BEGIN"]
                                /\ Some(own[k].BeginMinutes) = parse_time(df[i]["BEGIN"])
                    ELSE day \in DOMAIN ret.room_schedule =>
                            \A room \in DOMAIN ret.room_schedule[day] :
                                CountFrom(ret.room_schedule[day][room], i) = 0

\* a valid row that meets on Monday and not on Tuesday, in a Monday bucket
\* it shares with another row
C1_Witness ==
    /\ HasReturned
    /\ \E i \in DOMAIN df :
          /\ ValidRow(i)
          /\ FlagIsSet(i, "M") /\ ~FlagIsSet(i, "T")
          /\ df[i]["W"] = Text(<<"X">>)
          /\ Len(Bucket(ret.room_schedule, "Monday", RoomOfRow(i))) >= 2
          /\ CountFrom(Bucket(ret.room_schedule, "Monday", RoomOfRow(i)), i) = 1

\* C2: in the returned room schedule the entries of every bucket are in
\* non-decreasing order of BeginMinutes.
C2_BucketsSorted ==
    HasReturned =>
        \A b \in Buckets(ret.room_schedule) :
            \A k \in 1..(Len(b) - 1) : b[k].BeginMinutes <= b[k + 1].BeginMinutes

\* a bucket whose first entry comes from a later row than its second: the
\* sort has moved it forward
C2_Witness ==
    /\ HasReturned
    /\ \E b \in Buckets(ret.room_schedule) :
          /\ Len(b) >= 2
          /\ b[1].row > b[2].row
          /\ b[1].BeginMinutes < b[2].BeginMinutes

\* C4: every entry stored in a bucket has BeginMinutes within 0..1439,
\* whatever the BEGIN tokens of the rows are.
C4_BeginMinutesWithinDay ==
    HasReturned =>
        \A b \in Buckets(ret.room_schedule) :
            \A k \in DOMAIN b : b[k].BeginMinutes \in 0..1439

\* C5: a row whose BEGIN is missing, empty or unparseable has no entry in any
\* bucket, and process_schedule_data does not raise while handling it.
C5_UnparseableBeginIsFiltered ==
    ret.called =>
        \A i \in DOMAIN df : ~parse_time(df[i]["BEGIN"]).ok =>
            /\ \A b \in Buckets(ret.room_schedule) : CountFrom(b, i) = 0
            /\ ~(ret.raised /\ ret.at = i)

\* the part of C5 that the code keeps: no entry of such a row is ever stored
UnparseableBeginNeverStored ==
    ret.called =>
        \A i \in DOMAIN df : ~parse_time(df[i]["BEGIN"]).ok =>
            \A b \in Buckets(ret.room_schedule) : CountFrom(b, i) = 0

\* C8: within a bucket of the returned room schedule, entries of equal
\* BeginMinutes are in the order of their rows in the input.
C8_TiesInRowOrder ==
    HasReturned =>
        \A b \in Buckets(ret.room_schedule) :
            \A k, l \in DOMAIN b :
                (k < l /\ b[k].BeginMinutes = b[l].BeginMinutes) => b[k].row < b[l].row

\* a bucket of three entries: two of equal minutes from different tokens, and
\* an earlier one from the last row, which the sort has moved to the front
C8_Witness ==
    /\ HasReturned
    /\ \E b \in Buckets(ret.room_schedule) :
          /\ Len(b) = 3
          /\ b[1].row = 3
          /\ b[2].BeginMinutes = b[3].BeginMinutes
          /\ b[2].Begin # b[3].Begin
          /\ b[2].row < b[3].row

(***************************************************************************)
(* parse_time, under SpecParse.                                            *)
(***************************************************************************)
\* C3: for every hour h in 0..23 and minute m in 0..59, parse_time gives
\* h*60+m for the token "hhmm" and for the token "hh:mm".
C3_ColonAndPlainFormsAgree ==
    begin_time.called =>
        \A h \in 0..23, m \in 0..59 :
            time_str \in {Text(HHMM(h, m)), Text(HColonM(h, m))}
                => begin_time.result = Some(h * 60 + m)

\* the half of C3 that the code keeps: the "hhmm" token parses to h*60+m
PlainFormParses ==
    begin_time.called =>
        \A h \in 0..23, m \in 0..59 :
            time_str = Text(HHMM(h, m)) => begin_time.result = Some(h * 60 + m)

(***************************************************************************)
(* get_day_of_week, under SpecDays.                                        *)
(***************************************************************************)
DayIndex(day) == CHOOSE i \in DOMAIN DAY_COLUMNS : DAY_COLUMNS[i][2] = day

\* C9: get_day_of_week lists a weekday exactly when the row has the day's
\* column and the cell, trimmed, is the column's upper-case letter; of the
\* cells tried, these are the letter itself and the letter between
\* whitespace. The result has at most five weekdays, in Monday-to-Friday
\* order and none twice.
C9_ExactLetterMatch ==
    days.called =>
        /\ \A d \in DOMAIN DAY_COLUMNS :
              LET c == DAY_COLUMNS[d][1]
                  day == DAY_COLUMNS[d][2]
              IN  (\E k \in DOMAIN days.result : days.result[k] = day)
                  <=> (c \in DOMAIN row /\ row[c] \in {Text(<<c>>), Text(<<" ", c, "\t">>)})
        /\ Len(days.result) \in 0..5
        /\ \A k \in DOMAIN days.result : days.result[k] \in Weekdays
        /\ \A k, l \in DOMAIN days.result :
              k < l => DayIndex(days.result[k]) < DayIndex(days.result[l])

\* a row with a padded letter, a lower-case letter, a truthy value, another
\* column's letter and an exact letter: Monday and Friday only
C9_Witness ==
    /\ days.called
    /\ DOMAIN row = DayChars
    /\ row["M"] = Text(<<" ", "M", "\t">>)
    /\ row["T"] = Text(<<"t">>)
    /\ row["W"] = Text(<<"X">>)
    /\ row["R"] = Text(<<"M">>)
    /\ row["F"] = Text(<<"F">>)
    /\ days.result = <<"Monday", "Friday">>

(***************************************************************************)
(* The session, under SpecUI.                                              *)
(***************************************************************************)
MissesColumn(f) == f.present /\ f.readable /\ missing_cols(f.columns) # <<>>

\* C6: while the uploaded file misses a required column,
\* process_schedule_data is not run and chart_data is not set.
C6_NoBucketsWhileColumnMissing ==
    MissesColumn(uploaded_file) => (~room_schedule.called /\ ~chart_data.ok)

\* C7: when the run of a click on Generate has got a non-empty room schedule
\* for a valid file and has ended, chart_data holds the document.
C7_GenerateSetsChartData ==
    ( /\ pc \in {"idle", "download"}
      /\ clicked
      /\ file_valid
      /\ room_schedule.called /\ ~room_schedule.raised
      /\ DOMAIN room_schedule.room_schedule # {} )
    => chart_data.ok

\* C10: the upload step reloads exactly when the uploader holds a file whose
\* name differs from last_uploaded_filename. Then it records the name, sets
\* file_valid to False and chart_data to None and goes on to validate;
\* otherwise it leaves df_loaded, file_valid, chart_data and
\* last_uploaded_filename as they are and validates nothing. No other step
\* changes df_loaded or last_uploaded_filename.
C10_ReloadOnlyOnNewName ==
    [][ LET renamed == /\ uploaded_file.present
                       /\ SomeName(uploaded_file.name) # last_uploaded_filename
        IN  /\ pc = "upload" =>
                IF renamed
                THEN /\ last_uploaded_filename' = SomeName(uploaded_file.name)
                     /\ file_valid' = FALSE
                     /\ chart_data' = NoChart
                     /\ pc' = "validate"
                ELSE /\ UNCHANGED session
                     /\ pc' = "generate"
            /\ pc = "validate" =>
                UNCHANGED <<df_loaded, chart_data, last_uploaded_filename>>
            /\ (df_loaded' # df_loaded \/ last_uploaded_filename' # last_uploaded_filename)
                => (pc = "upload" /\ renamed)
      ]_vars

\* the upload step has passed over a file that has the name of the loaded
\* one and other content: the session still holds the first file, valid
C10_Witness ==
    /\ pc = "generate"
    /\ uploaded_file.present
    /\ last_uploaded_filename = SomeName(uploaded_file.name)
    /\ df_loaded.ok
    /\ df_loaded # load_schedule_data(uploaded_file)
    /\ file_valid
    /\ message = ""

====
